---- MODULE Spec2Model ----
(***************************************************************************)
(* vecs.Client (src/src/vecs/client.py): the collection lifecycle and the  *)
(* dimension-resolution protocol of get_or_create_collection, with the     *)
(* legacy create_collection / get_collection, list_collections and         *)
(* delete_collection, run by two clients against one shared store.         *)
(*                                                                         *)
(* The store is the bag of physical tables of schema "vecs" that carry a   *)
(* column "vec": one row [name, dim] per table (pg_class joined with       *)
(* pg_attribute, atttypmod being the declared width).  A bag, not a set or *)
(* a function: that a name has at most one table is then something the     *)
(* operations have to keep, not something the representation gives.        *)
(*                                                                         *)
(* Python's Optional[T] is a sequence of length 0 (None) or 1.             *)
(*                                                                         *)
(* catalog is what __init__ makes sure of in the store (the schema and the *)
(* extension); conn is each client's connection context: its engine, the   *)
(* sessions it holds, its bootstrap transaction, its use as a context      *)
(* manager.                                                                *)
(***************************************************************************)
EXTENDS Integers, Sequences, FiniteSets, Bags, TLC

\* Largest vector width the callers and adapters ask for.
MaxDim == 2

VARIABLES tables, call, last, catalog, conn

vars == <<tables, call, last, catalog, conn>>

-----------------------------------------------------------------------------
\* Values

None == <<>>

Some(x) == <<x>>

\* The two callers sharing the store (one vecs.Client each).
Clients == {"c1", "c2"}

\* 'docs': an ordinary collection name.
Docs == <<"d", "o", "c", "s">>

\* '_aux': a name that begins with the reserved prefix.
Aux == <<"_", "a", "u", "x">>

Names == {Docs, Aux}

\* pc.relname ^@ '_' : the prefix that marks internal tables.
ReservedPrefix == <<"_">>

\* The dimension argument: None (the default) or an int the caller passes.
DimArgs == {None} \cup {Some(d) : d \in 0..MaxDim}

\* The adapter argument: None, or an Adapter whose exported_dimension is
\* None or the int it declares.
Adapters == {None} \cup {Some([exported_dimension |-> x]) : x \in {None} \cup {Some(d) : d \in 0..MaxDim}}

\* The exceptions an operation can end with: the Python class and the message.
ErrNoDimension == [kind |-> "Exception", msg |-> "One of dimension or adapter must provide a dimension"]

ErrMismatch == [kind |-> "Exception", msg |-> "Dimensions reported by adapter, dimension, and collection do not match"]

ErrNotFound == [kind |-> "CollectionNotFound", msg |-> "No collection found with requested name"]

ErrAlreadyExists == [kind |-> "CollectionAlreadyExists", msg |-> "Collection with requested name already exists"]

\* The store refusing a vector column of width below 1.
ErrStore == [kind |-> "ProgrammingError", msg |-> "dimensions for type vector must be at least 1"]

NoError == [kind |-> "", msg |-> ""]

\* How a call ends: it returns a set of Collection descriptors (one for a
\* single collection, none for delete's None, any number for a list), or
\* it raises, or (get_or_create_collection after its lookup) it has yet to
\* issue its create.
Return(colls) == [status |-> "returned", value |-> colls, error |-> NoError]

Raise(e) == [status |-> "raised", value |-> {}, error |-> e]

Pending == [status |-> "pending", value |-> {}, error |-> NoError]

\* Collection(name, dimension, client): the descriptor's name and dimension.
Collection(name, dimension) == [name |-> name, dimension |-> dimension]

\* create schema if not exists vecs; create extension if not exists vector;
Bootstrap == {"schema", "extension"}

\* A client's connection context.  engine: "none" before create_engine,
\* "open" with a live pool, "disposed" after engine.dispose().  use: "live"
\* until disconnect() is called, then "unused" until the client's next
\* operation, and "ran" once an operation has run against the store since.
\* held: the sessions open.  txn: None, or how far the bootstrap
\* transaction is and what it has created and not committed.  scope:
\* "out", "in" (inside a with statement) or "done".
\* bound: the client __enter__ returned, "" before.  exit: None, or what
\* the latest __exit__ did.  init: how the latest __init__ ended, "" when
\* none has.
Connected == [engine |-> "open", use |-> "live", held |-> 0, txn |-> None,
              scope |-> "out", bound |-> "", exit |-> None, init |-> "returned"]

Unborn == [Connected EXCEPT !.engine = "none", !.init = ""]

\* The client exists: __init__ has returned.
Constructed(k) == k.engine # "none" /\ k.txn = None

\* A bug: a session is closed on the paths that leave its block in order,
\* not on a raise inside it.
SessionExitLeaksOnRaise(k, how) == IF how = "raise" THEN k ELSE [k EXCEPT !.held = @ - 1]

\* with self.Session() as sess: entering the block opens the session ...
SessionEnter(k) == [k EXCEPT !.held = @ + 1]

\* ... and leaving it, at its end, by a return or by a raise, closes it.
SessionExit(k, how) == [k EXCEPT !.held = @ - 1]

\* The engine hands out a connection.  Nothing in the client looks at
\* whether disconnect() was called, and a disposed engine makes itself a
\* new pool: the operation runs.
EngineUse(k) == [k EXCEPT !.engine = "open", !.use = IF @ = "live" THEN "live" ELSE "ran"]

\* self.engine.dispose()
EngineDispose(k) == [k EXCEPT !.engine = "disposed", !.use = IF @ = "live" THEN "unused" ELSE @]

-----------------------------------------------------------------------------
\* The store

\* The physical tables called name.
Rows(T, name) == {r \in BagToSet(T) : r.name = name}

\* The widths of the physical tables called name.
Widths(T, name) == {r.dim : r \in Rows(T, name)}

\* The names whose tables differ between T and T2.
Touched(T, T2) == {r.name : r \in {x \in BagToSet(T) \cup BagToSet(T2) : CopiesIn(x, T) # CopiesIn(x, T2)}}

\* Collection._create: raises when the table exists, else creates it.
CollectionCreate(T, coll) ==
    IF Rows(T, coll.name) # {}
    THEN [tables |-> T, outcome |-> Raise(ErrAlreadyExists)]
    ELSE IF coll.dimension < 1
    THEN [tables |-> T, outcome |-> Raise(ErrStore)]
    ELSE [tables |-> T (+) SetToBag({[name |-> coll.name, dim |-> coll.dimension]}),
          outcome |-> Return({coll})]

\* Collection._drop: raises when no such table exists, else drops it.
CollectionDrop(T, coll) ==
    IF Rows(T, coll.name) = {}
    THEN [tables |-> T, outcome |-> Raise(ErrNotFound)]
    ELSE [tables |-> [r \in {x \in BagToSet(T) : x.name # coll.name} |-> CopiesIn(r, T)],
          outcome |-> Return({})]

-----------------------------------------------------------------------------
\* The client's code

\* relname ^@ prefix
StartsWith(s, p) == Len(s) >= Len(p) /\ SubSeq(s, 1, Len(p)) = p

\* The catalog query of get_or_create_collection and get_collection.
\* A bug: the client answers from what its latest call saw of the name
\* instead of asking the store.
CollectionQueryStale(T, name) ==
    IF last.name = name /\ last.had # {} /\ ~StartsWith(name, ReservedPrefix)
    THEN {[name |-> name, dim |-> d] : d \in last.had}
    ELSE {r \in BagToSet(T) : ~StartsWith(r.name, ReservedPrefix) /\ r.name = name}

CollectionQuery(T, name) == {r \in BagToSet(T) : ~StartsWith(r.name, ReservedPrefix) /\ r.name = name}

\* fetchone(): None, or one of the rows.
FetchOne(rows) == IF rows = {} THEN {None} ELSE {Some(r) : r \in rows}

\* Collection._list_collections: one descriptor per non-internal table.
CollectionList(T) == {Collection(r.name, r.dim) : r \in {x \in BagToSet(T) : ~StartsWith(x.name, ReservedPrefix)}}

\* if query_result: _, collection_dimension = query_result; else None
CollectionDimension(query_result) == IF query_result # None THEN Some(query_result[1].dim) ELSE None

\* adapter.exported_dimension if adapter else None
AdapterDimension(adapter) == IF adapter # None THEN adapter[1].exported_dimension ELSE None

\* A bug: the width of the existing table is left out of the comparison.
ReportedDimensionsNoTable(dimension, collection_dimension, adapter) == {x[1] : x \in {y \in {dimension, AdapterDimension(adapter)} : y # None}}

\* A bug: the adapter's dimension is left out of the comparison.
ReportedDimensionsNoAdapter(dimension, collection_dimension, adapter) == {x[1] : x \in {y \in {dimension, collection_dimension} : y # None}}

\* set([x for x in [dimension, collection_dimension, adapter...] if x is not None])
ReportedDimensions(dimension, collection_dimension, adapter) == {x[1] : x \in {y \in {dimension, collection_dimension, AdapterDimension(adapter)} : y # None}}

\* A bug: the two raises carry each other's error.
DimensionErrorSwapped(reported_dimensions) ==
    IF Cardinality(reported_dimensions) = 0 THEN Some(ErrMismatch)
    ELSE IF Cardinality(reported_dimensions) > 1 THEN Some(ErrNoDimension)
    ELSE None

\* A bug: two sources that disagree pass, only three raise.
DimensionErrorOffByOne(reported_dimensions) ==
    IF Cardinality(reported_dimensions) = 0 THEN Some(ErrNoDimension)
    ELSE IF Cardinality(reported_dimensions) > 2 THEN Some(ErrMismatch)
    ELSE None

\* The two raises on len(reported_dimensions); None when neither fires.
DimensionError(reported_dimensions) ==
    IF Cardinality(reported_dimensions) = 0 THEN Some(ErrNoDimension)
    ELSE IF Cardinality(reported_dimensions) > 1 THEN Some(ErrMismatch)
    ELSE None

\* next(iter(reported_dimensions)) of a set of one
ResolvedDimension(reported_dimensions) == CHOOSE d \in reported_dimensions : TRUE

\* if collection_dimension: (None and 0 are falsy)
Exists(collection_dimension) == collection_dimension # None /\ collection_dimension[1] # 0

\* A bug: an error of _create is swallowed and the collection returned.
ReturnCreateSwallowed(collection, created) == Return({collection})

\* return collection._create(): what _create returns or raises is the call's.
ReturnCreate(collection, created) == created.outcome

\* A bug: a missing collection is passed over in silence (drop if exists).
DeleteOutcomeIfExists(T, name) ==
    [tables |-> CollectionDrop(T, Collection(name, -1)).tables, outcome |-> Return({})]

\* A bug: the call returns without dropping the table.
DeleteOutcomeNoDrop(T, name) ==
    [tables |-> T, outcome |-> CollectionDrop(T, Collection(name, -1)).outcome]

\* Collection(name, -1, self)._drop(); return
DeleteOutcome(T, name) == CollectionDrop(T, Collection(name, -1))

\* The record of the latest event: the operation, its arguments, the
\* lookup's collection_dimension, the widths the name's tables had before
\* the step, how it ended, and the names whose tables the step changed.
\* get_or_create_collection makes one event when its lookup and decision
\* end (returned, raised, or pending: _create is still to run) and, when
\* pending, a second one, "_create", with the collection it creates.
Event(op, name, dimension, adapter, cd, outcome, T, T2) ==
    [op |-> op, name |-> name, dimension |-> dimension, adapter |-> adapter,
     collection_dimension |-> cd, had |-> Widths(T, name),
     outcome |-> outcome, touched |-> Touched(T, T2)]

-----------------------------------------------------------------------------
\* The operations

Init ==
    /\ tables = EmptyBag
    /\ call = [c \in Clients |-> None]
    /\ last = Event("none", None, None, None, None, Return({}), EmptyBag, EmptyBag)
    /\ catalog = Bootstrap
    /\ conn = [c \in Clients |-> Connected]

\* What get_or_create_collection does with the row its query fetched:
\* raise, return the existing collection, or go on to _create (pending).
GetOrCreateOutcome(name, dimension, adapter, query_result) ==
    LET collection_dimension == CollectionDimension(query_result)
        reported_dimensions == ReportedDimensions(dimension, collection_dimension, adapter)
        error == DimensionError(reported_dimensions)
        collection == Collection(name, ResolvedDimension(reported_dimensions))
    IN IF error # None THEN [outcome |-> Raise(error[1]), collection |-> None]
       ELSE IF Exists(collection_dimension)
       THEN [outcome |-> Return({collection}), collection |-> None]
       ELSE [outcome |-> Pending, collection |-> Some(collection)]

\* get_or_create_collection up to its return of an existing collection or
\* its raise; past that, the collection it is about to create is call[c].
GetOrCreateLookup(c) ==
    /\ Constructed(conn[c])
    /\ call[c] = None
    /\ \E name \in Names, dimension \in DimArgs, adapter \in Adapters :
         \E query_result \in FetchOne(CollectionQuery(tables, name)) :
           LET decided == GetOrCreateOutcome(name, dimension, adapter, query_result)
           IN /\ call' = [call EXCEPT ![c] = decided.collection]
              /\ last' = Event("get_or_create_collection", name, dimension, adapter,
                               CollectionDimension(query_result), decided.outcome,
                               tables, tables)
    /\ conn' = [conn EXCEPT ![c] = SessionExit(EngineUse(SessionEnter(@)), "end")]
    /\ UNCHANGED <<tables, catalog>>

\* return collection._create()
GetOrCreateCreate(c) ==
    /\ call[c] # None
    /\ LET collection == call[c][1]
           created == CollectionCreate(tables, collection)
       IN /\ tables' = created.tables
          /\ last' = Event("_create", collection.name, Some(collection.dimension), None,
                           None, ReturnCreate(collection, created), tables, created.tables)
          /\ conn' = [conn EXCEPT ![c] = EngineUse(@)]
    /\ call' = [call EXCEPT ![c] = None]
    /\ UNCHANGED catalog

\* Collection(name, dimension, self)._create()
\* A bug: create_collection returns the descriptor and never calls _create.
CreateOutcomeUncreated(T, name, dimension) ==
    [tables |-> T, outcome |-> Return({Collection(name, dimension)})]

\* A bug: create_collection hands back the table that is already there.
CreateOutcomeReuse(T, name, dimension) ==
    IF Rows(T, name) # {}
    THEN [tables |-> T, outcome |-> Return({Collection(name, dimension)})]
    ELSE CollectionCreate(T, Collection(name, dimension))

CreateOutcome(T, name, dimension) == CollectionCreate(T, Collection(name, dimension))

CreateCollection(c) ==
    /\ Constructed(conn[c])
    /\ call[c] = None
    /\ \E name \in Names, dimension \in 0..MaxDim :
         LET created == CreateOutcome(tables, name, dimension)
         IN /\ tables' = created.tables
            /\ last' = Event("create_collection", name, Some(dimension), None, None,
                             created.outcome, tables, created.tables)
            /\ conn' = [conn EXCEPT ![c] = EngineUse(@)]
    /\ UNCHANGED <<call, catalog>>

\* raise CollectionNotFound when the query has no row, else the row's Collection
\* A bug: get_collection returns nothing instead of raising.
GetCollectionOutcomeNoRaise(query_result) ==
    IF query_result = None THEN Return({})
    ELSE Return({Collection(query_result[1].name, query_result[1].dim)})

GetCollectionOutcome(query_result) ==
    IF query_result = None THEN Raise(ErrNotFound)
    ELSE Return({Collection(query_result[1].name, query_result[1].dim)})

\* How get_collection leaves its session block: by the raise or the return.
GetCollectionExit(outcome) == IF outcome.status = "raised" THEN "raise" ELSE "return"

GetCollection(c) ==
    /\ Constructed(conn[c])
    /\ call[c] = None
    /\ \E name \in Names :
         \E query_result \in FetchOne(CollectionQuery(tables, name)) :
           LET outcome == GetCollectionOutcome(query_result)
           IN /\ last' = Event("get_collection", name, None, None,
                               CollectionDimension(query_result), outcome, tables, tables)
              /\ conn' = [conn EXCEPT ![c] = SessionExit(EngineUse(SessionEnter(@)),
                                                          GetCollectionExit(outcome))]
    /\ UNCHANGED <<tables, call, catalog>>

\* return Collection._list_collections(self)
\* A bug: list_collections drops the list it asked for.
ListOutcomeNone(T) == Return({})

ListOutcome(T) == Return(CollectionList(T))

ListCollections(c) ==
    /\ Constructed(conn[c])
    /\ call[c] = None
    /\ last' = Event("list_collections", None, None, None, None,
                     ListOutcome(tables), tables, tables)
    /\ conn' = [conn EXCEPT ![c] = EngineUse(@)]
    /\ UNCHANGED <<tables, call, catalog>>

DeleteCollection(c) ==
    /\ Constructed(conn[c])
    /\ call[c] = None
    /\ \E name \in Names :
         LET dropped == DeleteOutcome(tables, name)
         IN /\ tables' = dropped.tables
            /\ last' = Event("delete_collection", name, None, None, None,
                             dropped.outcome, tables, dropped.tables)
            /\ conn' = [conn EXCEPT ![c] = EngineUse(@)]
    /\ UNCHANGED <<call, catalog>>

Next ==
    \E c \in Clients :
        \/ GetOrCreateLookup(c)
        \/ GetOrCreateCreate(c)
        \/ CreateCollection(c)
        \/ GetCollection(c)
        \/ ListCollections(c)
        \/ DeleteCollection(c)

Spec == Init /\ [][Next]_vars

\* The callers run get_or_create_collection only, on a store that starts
\* empty: whatever one of them meets was made by a get_or_create_collection.
NextGetOrCreate ==
    \E c \in Clients :
        \/ GetOrCreateLookup(c)
        \/ GetOrCreateCreate(c)

SpecGetOrCreate == Init /\ [][NextGetOrCreate]_vars

-----------------------------------------------------------------------------
\* What the claims speak of

GetOrCreate == "get_or_create_collection"

\* The dimension an adapter argument declares, None without an adapter.
DeclaredBy(adapter) == IF adapter = None THEN None ELSE adapter[1].exported_dimension

\* The distinct non-absent values among the caller's dimension, the
\* existing table's (as the lookup saw it) and the adapter's.
ConflictSet(e) == {d \in 0..MaxDim : Some(d) \in {e.dimension, e.collection_dimension, DeclaredBy(e.adapter)}}

\* The one value of a set of one.
TheOne(S) == CHOOSE d \in S : TRUE

Returned(e) == e.outcome.status = "returned"

Raised(e) == e.outcome.status = "raised"

\* The decision of get_or_create_collection on the three sources, as far
\* as the lookup event shows it: a raise on no source or on disagreement,
\* and on one value the descriptor of the found table, or the create
\* still to come when the lookup found none.
DecidesBySet(e) ==
    /\ (e.outcome = Raise(ErrNoDimension)) <=> (ConflictSet(e) = {})
    /\ (e.outcome = Raise(ErrMismatch)) <=> (Cardinality(ConflictSet(e)) > 1)
    /\ Cardinality(ConflictSet(e)) = 1 =>
         IF e.collection_dimension # None
         THEN e.outcome = Return({Collection(e.name, TheOne(ConflictSet(e)))})
         ELSE e.outcome = Pending

\* C1 as claimed: get_or_create_collection fails with the configuration
\* error iff no source gives a dimension, with the conflict error iff the
\* sources give more than one, and otherwise succeeds with a descriptor of
\* the one value: the create it issues on one value returns the descriptor.
C1_DecidesBySetAndSucceeds ==
    /\ last.op = GetOrCreate => DecidesBySet(last)
    /\ last.op = "_create" => last.outcome = Return({Collection(last.name, last.dimension[1])})

\* C1, amended: get_or_create_collection fails with the configuration error
\* iff no source gives a dimension and with the conflict error iff the
\* sources give more than one; on one value it returns a descriptor of that
\* value when the lookup found a table, and when it found none it issues a
\* create of that value, which either creates the table and returns the
\* descriptor or raises the store's refusal (the table exists by now, or
\* the width is below 1) and creates nothing.
C1_DecidesBySet ==
    /\ last.op = GetOrCreate => DecidesBySet(last)
    /\ last.op = "_create" =>
         \/ /\ last.outcome = Return({Collection(last.name, last.dimension[1])})
            /\ last.touched = {last.name}
            /\ Widths(tables, last.name) = {last.dimension[1]}
         \/ /\ last.outcome \in {Raise(ErrAlreadyExists), Raise(ErrStore)}
            /\ last.touched = {}
            /\ last.had # {} \/ last.dimension[1] < 1

\* C1's case: the caller's dimension and the existing table's disagree and
\* the call has raised the conflict error.
C1_Witness ==
    /\ last.op = GetOrCreate
    /\ last.dimension # None
    /\ last.collection_dimension # None
    /\ last.dimension # last.collection_dimension
    /\ last.outcome = Raise(ErrMismatch)

\* C2 as claimed: when a table for name exists with width d,
\* get_or_create_collection(name, dimension=d) returns the descriptor and
\* issues no create, and with dimension=d2 # d it raises the conflict
\* error and the table stays as it was.
C2_ExistingTableReused ==
    (last.op = GetOrCreate /\ last.adapter = None /\ last.dimension # None /\ last.had # {}) =>
        IF last.had = {last.dimension[1]}
        THEN last.outcome = Return({Collection(last.name, last.dimension[1])})
        ELSE /\ last.outcome = Raise(ErrMismatch)
             /\ last.touched = {}
             /\ Widths(tables, last.name) = last.had

\* No call is between its lookup and its create.
Quiet == \A c \in Clients : call[c] = None

\* The number of physical tables called name.
Copies(T, name) == BagCardinality([r \in Rows(T, name) |-> CopiesIn(r, T)])

\* C3 as claimed: a get_or_create_collection that follows, with nothing
\* in between and no call under way, a get_or_create_collection that
\* returned a collection for the same name and dimension (the same
\* arguments when the first one found the table; dimension=d and no
\* adapter when it created the table at width d), returns the same
\* descriptor, changes no table, and leaves the name with one table.
C3_Idempotent ==
    [][(/\ Quiet
        /\ Returned(last)
        /\ \/ last.op = GetOrCreate /\ last'.dimension = last.dimension /\ last'.adapter = last.adapter
           \/ last.op = "_create" /\ last'.dimension = last.dimension /\ last'.adapter = None
        /\ last'.op = GetOrCreate
        /\ last'.name = last.name)
       => (/\ last'.outcome = last.outcome
           /\ tables' = tables
           /\ Copies(tables', last.name) = 1)]_vars

\* C4: no name has two tables; a step changes the tables of no name but
\* the one it was called with; a table that is there before and after a
\* step has the width it had; and a descriptor get_or_create_collection
\* returns, whether it found the table or went on to create, has the width
\* of the name's table.
C4_OneDimension ==
    /\ \A n \in Names : Copies(tables, n) <= 1
    /\ \A n \in last.touched : n = last.name
    /\ (last.had # {} /\ Widths(tables, last.name) # {}) => Widths(tables, last.name) = last.had
    /\ (last.op \in {GetOrCreate, "_create"} /\ Returned(last)) =>
         /\ Cardinality(last.outcome.value) = 1
         /\ \A coll \in last.outcome.value : coll.name = last.name /\ Widths(tables, last.name) = {coll.dimension}
    /\ (last.op \in {GetOrCreate, "_create"} /\ last.had # {}) =>
         \A coll \in last.outcome.value : last.had = {coll.dimension}

\* C4's case: get_or_create_collection has returned the descriptor of a
\* table that was there, with a caller's dimension that agrees.
C4_Witness ==
    /\ last.op = GetOrCreate
    /\ last.had # {}
    /\ last.dimension # None
    /\ Returned(last)

\* C5: with the caller's and the adapter's dimension both given and
\* unequal and no table for the name, get_or_create_collection raises the
\* conflict error, goes on to no create, and the tables are as they were.
C5_ConflictCreatesNothing ==
    (/\ last.op = GetOrCreate
     /\ last.dimension # None
     /\ DeclaredBy(last.adapter) # None
     /\ last.dimension # DeclaredBy(last.adapter)
     /\ last.had = {}) =>
        /\ last.outcome = Raise(ErrMismatch)
        /\ last.touched = {}
        /\ Widths(tables, last.name) = {}

\* C5's case: such a call has raised.
C5_Witness ==
    /\ last.op = GetOrCreate
    /\ last.dimension # None
    /\ DeclaredBy(last.adapter) # None
    /\ last.dimension # DeclaredBy(last.adapter)
    /\ last.had = {}
    /\ Raised(last)

\* C6: with no dimension, no adapter and no table for the name,
\* get_or_create_collection raises the configuration error, goes on to no
\* create, and the tables are as they were.
C6_NoSourceCreatesNothing ==
    (/\ last.op = GetOrCreate
     /\ last.dimension = None
     /\ last.adapter = None
     /\ last.had = {}) =>
        /\ last.outcome = Raise(ErrNoDimension)
        /\ last.touched = {}
        /\ Widths(tables, last.name) = {}

\* C6's case: such a call has raised.
C6_Witness ==
    /\ last.op = GetOrCreate
    /\ last.dimension = None
    /\ last.adapter = None
    /\ last.had = {}
    /\ Raised(last)

\* C7: with callers that race through get_or_create_collection, no name
\* ever has two tables; a create issued for a name that has a table by
\* then (the lookup saw none: the race is lost) raises the already-exists
\* error and changes nothing; and a create that returns has made the one
\* table of its name, at the width of the descriptor it returns.
C7_RaceSurfaces ==
    /\ \A n \in Names : Copies(tables, n) <= 1
    /\ (last.op = "_create" /\ last.had # {}) =>
         /\ last.outcome = Raise(ErrAlreadyExists)
         /\ last.touched = {}
         /\ Widths(tables, last.name) = last.had
    /\ (last.op = "_create" /\ Returned(last)) =>
         /\ last.had = {}
         /\ last.touched = {last.name}
         /\ last.outcome.value = {Collection(last.name, TheOne(Widths(tables, last.name)))}

\* C7's case: the lookups of both callers saw no table docs, both went on
\* to create it at the same width, and the second create has raised.
C7_Witness ==
    /\ last.op = "_create"
    /\ last.name = Docs
    /\ last.dimension # None
    /\ last.had = {last.dimension[1]}
    /\ last.outcome = Raise(ErrAlreadyExists)

\* What delete_collection owes when the name has no table.
DeleteOfAbsent(e) ==
    (e.op = "delete_collection" /\ e.had = {}) => (e.outcome = Raise(ErrNotFound) /\ e.touched = {})

\* C8: delete_collection of a name with no table raises not-found and
\* changes no table, and a delete_collection that follows a successful
\* delete_collection of the same name raises not-found.
C8_DeleteAbsent ==
    [][/\ DeleteOfAbsent(last')
       /\ last'.op = "delete_collection" /\ last'.had = {} => tables' = tables
       /\ (last.op = "delete_collection" /\ Returned(last)
           /\ last'.op = "delete_collection" /\ last'.name = last.name)
          => last'.outcome = Raise(ErrNotFound)]_vars

\* C8's case: a delete_collection of a name with no table has raised.
C8_Witness ==
    /\ last.op = "delete_collection"
    /\ last.had = {}
    /\ Raised(last)

\* What holds once delete_collection has returned: the name has no table,
\* no other name's tables changed, list_collections does not show the
\* name, and get_collection of it raises not-found.
Deleted(e, T) ==
    (e.op = "delete_collection" /\ Returned(e)) =>
        /\ Rows(T, e.name) = {}
        /\ e.had # {}
        /\ e.touched = {e.name}
        /\ \A coll \in ListOutcome(T).value : coll.name # e.name
        /\ \A query_result \in FetchOne(CollectionQuery(T, e.name)) :
             GetCollectionOutcome(query_result) = Raise(ErrNotFound)
        /\ (\A n \in Names \ {e.name} : Rows(T, n) = {}) => ListOutcome(T).value = {}

\* C9: after delete_collection returns, the table is gone and the others
\* are as they were; a list_collections that comes next does not return
\* the name (and returns nothing when no other name has a table), and a
\* get_collection of the name that comes next raises not-found.
C9_DeleteRemoves ==
    [][/\ Deleted(last', tables')
       /\ (last.op = "delete_collection" /\ Returned(last) /\ last'.op = "list_collections") =>
            /\ \A coll \in last'.outcome.value : coll.name # last.name
            /\ (\A n \in Names \ {last.name} : Rows(tables, n) = {}) => last'.outcome = Return({})
       /\ (last.op = "delete_collection" /\ Returned(last)
           /\ last'.op = "get_collection" /\ last'.name = last.name) =>
            last'.outcome = Raise(ErrNotFound)]_vars

\* C9's case: delete_collection has dropped docs, the only collection, and
\* the list that follows is empty.
C9_Witness ==
    /\ last.op = "delete_collection"
    /\ last.name = Docs
    /\ Returned(last)
    /\ last.had # {}
    /\ tables = EmptyBag

\* The failure case of an event that raised, by what went wrong.
FailureCase(e) ==
    IF e.op = GetOrCreate /\ ConflictSet(e) = {} THEN "configuration"
    ELSE IF e.op = GetOrCreate THEN "conflict"
    ELSE IF e.op \in {"get_collection", "delete_collection"} THEN "not-found"
    ELSE IF e.had # {} THEN "already-exists"
    ELSE "store"

\* C10 as claimed: two calls in a row that fail in different cases among
\* configuration, conflict, not-found and already-exists raise errors of
\* different kinds.
C10_DistinctKinds ==
    [][(/\ Raised(last)
        /\ Raised(last')
        /\ FailureCase(last) # "store"
        /\ FailureCase(last') # "store"
        /\ FailureCase(last) # FailureCase(last'))
       => last.outcome.error.kind # last'.outcome.error.kind]_vars

-----------------------------------------------------------------------------
\* The client's life: construction, disconnect, use in a with statement

\* A fresh store and no client yet.
InitFresh ==
    /\ tables = EmptyBag
    /\ call = [c \in Clients |-> None]
    /\ last = Event("none", None, None, None, None, Return({}), EmptyBag, EmptyBag)
    /\ catalog = {}
    /\ conn = [c \in Clients |-> Unborn]

\* A bug: each statement is committed as it is executed.
SessExecuteAutocommit(cat, created, obj) == [catalog |-> cat \cup {obj}, created |-> created]

\* sess.execute(text("create ... if not exists ...")) inside sess.begin():
\* the object is created unless it is there, and stays the transaction's
\* own until the commit.
SessExecute(cat, created, obj) ==
    [catalog |-> cat, created |-> IF obj \in cat THEN created ELSE created \cup {obj}]

\* __init__ up to its first statement: the engine, the session, the
\* transaction, create schema if not exists.
InitSchema(c) ==
    /\ conn[c].engine = "none"
    /\ LET x == SessExecute(catalog, {}, "schema")
       IN /\ catalog' = x.catalog
          /\ conn' = [conn EXCEPT ![c] = [SessionEnter(@) EXCEPT !.engine = "open",
                                             !.txn = Some([stmts |-> 1, created |-> x.created])]]
    /\ UNCHANGED <<tables, call, last>>

\* __init__: create extension if not exists.
InitExtension(c) ==
    /\ conn[c].txn # None
    /\ conn[c].txn[1].stmts = 1
    /\ LET x == SessExecute(catalog, conn[c].txn[1].created, "extension")
       IN /\ catalog' = x.catalog
          /\ conn' = [conn EXCEPT ![c].txn = Some([stmts |-> 2, created |-> x.created])]
    /\ UNCHANGED <<tables, call, last>>

\* __init__: the blocks end, the transaction commits, the session closes
\* and the client is there.  "if not exists" looks before it creates: a
\* transaction that created what another one has committed since is
\* refused by the store, the exception leaves both blocks and __init__,
\* and there is no client.
InitCommit(c) ==
    /\ conn[c].txn # None
    /\ conn[c].txn[1].stmts = 2
    /\ LET created == conn[c].txn[1].created
       IN IF created \cap catalog = {}
          THEN /\ catalog' = catalog \cup created
               /\ conn' = [conn EXCEPT ![c] =
                             SessionExit([@ EXCEPT !.txn = None, !.init = "returned"], "end")]
          ELSE /\ catalog' = catalog
               /\ conn' = [conn EXCEPT ![c] =
                             SessionExit([@ EXCEPT !.engine = "none", !.txn = None,
                                                   !.init = "raised"], "raise")]
    /\ UNCHANGED <<tables, call, last>>

\* disconnect
Disconnect(c) ==
    /\ Constructed(conn[c])
    /\ call[c] = None
    /\ conn' = [conn EXCEPT ![c] = EngineDispose(@)]
    /\ UNCHANGED <<tables, call, last, catalog>>

\* __enter__: return self
EnterOutcome(c) == c

Enter(c) ==
    /\ Constructed(conn[c])
    /\ call[c] = None
    /\ conn[c].scope # "in"
    /\ conn' = [conn EXCEPT ![c] = [@ EXCEPT !.scope = "in", !.bound = EnterOutcome(c), !.exit = None]]
    /\ UNCHANGED <<tables, call, last, catalog>>

\* What the body of a with statement hands to __exit__: None, or the
\* exception it raised.
BodyExceptions == {None, Some(ErrNotFound)}

\* A bug: __exit__ tells the with statement it has dealt with the exception.
ExitOutcomeSuppress(exc) == [disconnects |-> 1, value |-> Some(TRUE)]

\* __exit__: self.disconnect(), once, and a bare return, whatever exc is.
ExitOutcome(exc) == [disconnects |-> 1, value |-> None]

\* The with statement: the body's exception goes on to the caller unless
\* __exit__ returned a true value.
Propagated(exc, value) == IF value = None \/ value = Some(FALSE) THEN exc ELSE None

\* disconnect() called n times.
Disconnects(k, n) == IF n = 0 THEN k ELSE EngineDispose(k)

Exit(c) ==
    /\ conn[c].scope = "in"
    /\ call[c] = None
    /\ \E exc \in BodyExceptions :
         LET x == ExitOutcome(exc)
         IN conn' = [conn EXCEPT ![c] =
                       [Disconnects(@, x.disconnects) EXCEPT
                          !.scope = "done",
                          !.exit = Some([exc |-> exc, disconnects |-> x.disconnects,
                                         raised |-> Propagated(exc, x.value)])]]
    /\ UNCHANGED <<tables, call, last, catalog>>

\* Clients that are used and disconnected.
NextDisconnect == Next \/ \E c \in Clients : Disconnect(c)

SpecDisconnect == Init /\ [][NextDisconnect]_vars

\* Clients that are constructed against a fresh store and then look up,
\* get or create collections.
NextInit ==
    \E c \in Clients :
      \/ InitSchema(c)
      \/ InitExtension(c)
      \/ InitCommit(c)
      \/ GetOrCreateLookup(c)
      \/ GetOrCreateCreate(c)
      \/ GetCollection(c)

SpecInit == InitFresh /\ [][NextInit]_vars

\* Clients that are used as the resource of a with statement.
NextScope ==
    \E c \in Clients :
      \/ Enter(c)
      \/ Exit(c)
      \/ CreateCollection(c)
      \/ GetCollection(c)
      \/ ListCollections(c)
      \/ DeleteCollection(c)

SpecScope == Init /\ [][NextScope]_vars

-----------------------------------------------------------------------------
\* Listing, the legacy calls, and names and widths

\* Whether a name is one the store's users may give a collection.
Public(name) == Head(name) # "_"

\* C12: list_collections returns one descriptor for every table whose name
\* does not begin with the reserved prefix, carrying the table's width, and
\* nothing else; no name it returns begins with the reserved prefix.
C12_ListIsThePublicTables ==
    last.op = "list_collections" =>
      /\ Returned(last)
      /\ \A n \in Names : \A d \in 0..MaxDim :
           Collection(n, d) \in last.outcome.value <=> (Public(n) /\ d \in Widths(tables, n))
      /\ \A coll \in last.outcome.value : Public(coll.name) /\ coll.name \in Names
      /\ \A x, y \in last.outcome.value : x.name = y.name => x = y

\* C12's case: both tables exist and the list holds docs alone.
C12_Witness ==
    /\ last.op = "list_collections"
    /\ Widths(tables, Aux) # {}
    /\ Widths(tables, Docs) = {MaxDim}
    /\ last.outcome = Return({Collection(Docs, MaxDim)})

\* C13: create_collection on a name that has a table, of whatever width,
\* raises already-exists, leaves the tables as they were and returns
\* nothing.
C13_CreateRefusesExisting ==
    (last.op = "create_collection" /\ last.had # {}) =>
      /\ last.outcome = Raise(ErrAlreadyExists)
      /\ last.touched = {}
      /\ Widths(tables, last.name) = last.had

\* C13's case: create_collection asked for another width than the table has.
C13_Witness ==
    /\ last.op = "create_collection"
    /\ last.name = Docs
    /\ last.had = {1}
    /\ last.dimension = Some(MaxDim)
    /\ Raised(last)

\* C14: get_collection changes no table; with no matching table it raises
\* not-found, and with one it returns the descriptor that carries the
\* table's width.  A table whose name begins with the reserved prefix
\* matches no lookup.
C14_GetCollection ==
    last.op = "get_collection" =>
      /\ last.touched = {}
      /\ Widths(tables, last.name) = last.had
      /\ (last.had = {} \/ ~Public(last.name)) => last.outcome = Raise(ErrNotFound)
      /\ (last.had # {} /\ Public(last.name)) =>
           /\ Returned(last)
           /\ \E d \in last.had : last.had = {d} /\ last.outcome.value = {Collection(last.name, d)}

\* C14's case: get_collection has returned docs with the width of its table.
C14_Witness ==
    /\ last.op = "get_collection"
    /\ last.name = Docs
    /\ last.had = {MaxDim}
    /\ last.outcome = Return({Collection(Docs, MaxDim)})

\* What a lookup of name finds in T: None, or the width of its table.
PhysicalDimension(T, name) ==
    IF Public(name) /\ Widths(T, name) # {} THEN Some(TheOne(Widths(T, name))) ELSE None

\* get_or_create_collection called with a dimension and no adapter, right
\* after the delete_collection that dropped the table of the same name,
\* which had another width.
AfterDelete ==
    /\ last.op = "delete_collection"
    /\ Returned(last)
    /\ last'.op = GetOrCreate
    /\ last'.name = last.name
    /\ last'.adapter = None
    /\ last'.dimension # None
    /\ last'.dimension[1] \notin last.had

C19_NoReservedNames ==
    /\ \A r \in BagToSet(tables) : Public(r.name)
    /\ Returned(last) => \A coll \in last.outcome.value : Public(coll.name)
    /\ (last.op = "_create" /\ ~Public(last.name)) => last.had = {}

-----------------------------------------------------------------------------
\* The client's life

\* C11 as claimed: once disconnect() has been called the engine stays
\* disposed and no operation of the client runs against the store again:
\* every one is refused with a connection error.
C11_DisconnectIsFinal ==
    \A c \in Clients :
      conn[c].use # "live" => (conn[c].engine = "disposed" /\ conn[c].use \in {"unused", "refused"})

\* A step of some client's __init__.
InitStep(c) == conn'[c].txn # conn[c].txn

\* C16: the schema and the extension come into the store together, by one
\* commit; they are there whenever a client is constructed and whenever a
\* collection operation has run; a step of __init__ changes no table and
\* takes nothing away; and an __init__ that found both in the store, with
\* other clients at work or not, returns and leaves the store as it was.
C16_Bootstrap ==
    [][/\ catalog' \in {{}, Bootstrap}
       /\ \A c \in Clients : Constructed(conn'[c]) => catalog' = Bootstrap
       /\ last'.op # "none" => catalog' = Bootstrap
       /\ \A c \in Clients :
            InitStep(c) =>
              /\ tables' = tables
              /\ catalog \subseteq catalog'
              /\ (conn'[c].txn = None /\ conn[c].txn[1].created = {}) =>
                   /\ conn'[c].init = "returned"
                   /\ Constructed(conn'[c])
                   /\ catalog' = catalog
                   /\ catalog = Bootstrap]_vars

\* C16's case: one client is constructed and has a collection; a second
\* one is in its __init__, has run both statements and had nothing to
\* create.
C16_Witness ==
    \E c, c2 \in Clients :
      /\ Constructed(conn[c])
      /\ tables # EmptyBag
      /\ conn[c2].txn = Some([stmts |-> 2, created |-> {}])

\* C17: a client holds one session inside __init__ and none elsewhere: once
\* __init__, get_or_create_collection or get_collection has returned or raised, and
\* between the lookup and the create of get_or_create_collection, it holds
\* none.
C17_SessionsReleased ==
    \A c \in Clients : conn[c].held = IF conn[c].txn = None THEN 0 ELSE 1

\* C17's case: get_collection has raised not-found inside its session block
\* and no client holds a session.
C17_Witness ==
    /\ last.op = "get_collection"
    /\ last.outcome = Raise(ErrNotFound)
    /\ \A c \in Clients : Constructed(conn[c]) /\ conn[c].held = 0

\* C20: __enter__ returns the client it was called on and changes neither
\* the store nor the engine; __exit__ calls disconnect once, which leaves
\* the engine disposed, whether the body raised or not, changes no table,
\* and the body's exception goes on to the caller.
C20_Scope ==
    [][\A c \in Clients :
         /\ (conn[c].scope # "in" /\ conn'[c].scope = "in") =>
              /\ conn'[c].bound = c
              /\ conn'[c].engine = conn[c].engine
              /\ conn'[c].use = conn[c].use
              /\ tables' = tables
              /\ catalog' = catalog
         /\ (conn[c].scope = "in" /\ conn'[c].scope = "done") =>
              /\ conn'[c].engine = "disposed"
              /\ conn'[c].use # "live"
              /\ conn'[c].exit # None
              /\ conn'[c].exit[1].disconnects = 1
              /\ conn'[c].exit[1].raised = conn'[c].exit[1].exc
              /\ tables' = tables]_vars

\* C20's case: the body of a with statement raised, __exit__ has run, the
\* engine is disposed and the exception has gone on.
C20_Witness ==
    \E c \in Clients :
      /\ conn[c].scope = "done"
      /\ conn[c].bound = c
      /\ conn[c].engine = "disposed"
      /\ conn[c].exit = Some([exc |-> Some(ErrNotFound), disconnects |-> 1, raised |-> Some(ErrNotFound)])

====
